---- MODULE Spec2Model ----
(***************************************************************************)
(* Deduplication and persistence core of github_trending.py:               *)
(* _load_blocklist, get_trending's seen-set and batch filter, save_to_csv  *)
(* and add_to_blocklist, over the two files block_github.csv and           *)
(* github_trending.csv.                                                    *)
(*                                                                         *)
(* A string is a sequence of atoms.  An atom is one character with a       *)
(* meaning to the code (BOM, SP, COMMA, QUOTE, BAD) or an opaque run of    *)
(* other characters ("a", "b", "c", "url", "URL").  A file is a record     *)
(* [exists, lines]; its size is zero exactly when it has no line.          *)
(***************************************************************************)
EXTENDS Integers, Sequences, FiniteSets, TLC

\* ------------------------------------------------------------------ bounds
MaxBatch == 3
MaxCallBatch == 2
MaxBlockRows == 3
MaxOutRows == 3
MaxFileRows == 3

\* ----------------------------------------------------------------- strings
BOM == "BOM"
SP == "SP"
COMMA == ","
QUOTE == "Q"
BAD == "BAD"

HEADER == <<"url">>

\* str.strip(): whitespace off both ends; U+FEFF is not whitespace
RECURSIVE LStrip(_)
LStrip(s) ==
  IF s = <<>> THEN <<>>
  ELSE IF Head(s) = SP THEN LStrip(Tail(s)) ELSE s

RECURSIVE RStrip(_)
RStrip(s) ==
  IF s = <<>> THEN <<>>
  ELSE IF s[Len(s)] = SP THEN RStrip(SubSeq(s, 1, Len(s) - 1)) ELSE s

Strip(s) == RStrip(LStrip(s))

\* str.lower()
Lower(s) == [i \in DOMAIN s |-> IF s[i] = "URL" THEN "url" ELSE s[i]]

Contains(s, ch) == \E i \in DOMAIN s : s[i] = ch

\* ------------------------------------------------------------ csv dialect
\* csv.reader: the first field of one physical line (excel dialect states)
RECURSIVE ParseField(_, _, _)
ParseField(rest, st, acc) ==
  IF rest = <<>> THEN acc
  ELSE LET ch == Head(rest)
           tl == Tail(rest)
       IN CASE st = "start" ->
                 IF ch = COMMA THEN acc
                 ELSE IF ch = QUOTE THEN ParseField(tl, "quoted", acc)
                 ELSE ParseField(tl, "field", Append(acc, ch))
            [] st = "field" ->
                 IF ch = COMMA THEN acc
                 ELSE ParseField(tl, "field", Append(acc, ch))
            [] st = "quoted" ->
                 IF ch = QUOTE THEN ParseField(tl, "quote_in_quoted", acc)
                 ELSE ParseField(tl, "quoted", Append(acc, ch))
            [] OTHER ->
                 IF ch = QUOTE THEN ParseField(tl, "quoted", Append(acc, ch))
                 ELSE IF ch = COMMA THEN acc
                 ELSE ParseField(tl, "field", Append(acc, ch))

\* csv.reader yields [] for an empty line, else the list of fields
CsvRow(line) == IF line = <<>> THEN <<>> ELSE <<ParseField(line, "start", <<>>)>>

\* csv.writer.writerow([value]) with QUOTE_MINIMAL
CsvWriteRow(value) ==
  IF value = <<>> THEN <<QUOTE, QUOTE>>
  ELSE IF Contains(value, COMMA) \/ Contains(value, QUOTE)
       THEN <<QUOTE>> \o value \o <<QUOTE>>
       ELSE value

\* ------------------------------------------------------------------ files
Absent == [exists |-> FALSE, lines |-> <<>>]

FileSize0(f) == f.lines = <<>>

Undecodable(f) == \E i \in DOMAIN f.lines : Contains(f.lines[i], BAD)

\* TextIOWrapper encoder: utf-8-sig puts the marker before the first text
Encode(lines, encoding) ==
  IF encoding = "utf-8-sig" /\ lines # <<>>
  THEN <<(<<BOM>> \o lines[1])>> \o Tail(lines)
  ELSE lines

\* open(mode) then the writes; wn = -1: open raises OSError,
\* 0 <= wn < Len(lines): OSError after wn lines, wn = Len(lines): success
OpenAndWrite(f, mode, lines, wn) ==
  IF wn < 0 THEN f
  ELSE LET written == SubSeq(lines, 1, wn)
       IN IF mode = "w"
          THEN [exists |-> TRUE, lines |-> written]
          ELSE [exists |-> TRUE, lines |-> f.lines \o written]

\* ----------------------------------------------------------------- loader
\* the for-loop of _load_blocklist over the rows the reader yields
RECURSIVE LoadRows(_, _)
LoadRows(lines, blocklist) ==
  IF lines = <<>> THEN blocklist
  ELSE LET row == CsvRow(Head(lines))
       IN IF row = <<>> THEN LoadRows(Tail(lines), blocklist)
          ELSE LET value == Strip(row[1])
               IN IF value = <<>> THEN LoadRows(Tail(lines), blocklist)
                  ELSE IF Lower(value) = HEADER /\ blocklist = {}
                       THEN LoadRows(Tail(lines), blocklist)
                       ELSE LoadRows(Tail(lines), blocklist \cup {value})

\* _load_blocklist; nr = number of rows readable before an OSError
\* (nr = Len(lines): none).  A decoding error is not an OSError and escapes.
LoadBlocklist(f, nr) ==
  IF ~f.exists THEN [raised |-> FALSE, set |-> {}]
  ELSE IF Undecodable(f) /\ nr > 0 THEN [raised |-> TRUE, set |-> {}]
  ELSE [raised |-> FALSE, set |-> LoadRows(SubSeq(f.lines, 1, nr), {})]


\* ------------------------------------------------------------- get_trending
\* repo.get('url'): None when the key is missing
HasUrl(repo) == "url" \in DOMAIN repo

\* `not url_value`: None or the empty string
Falsy(repo) == IF HasUrl(repo) THEN repo.url = <<>> ELSE TRUE

\* the filter loop of get_trending
RECURSIVE FilterLoop(_, _, _, _)
FilterLoop(repos, existed, seen_in_batch, filtered) ==
  IF repos = <<>> THEN filtered
  ELSE LET repo == Head(repos)
       IN IF Falsy(repo) THEN FilterLoop(Tail(repos), existed, seen_in_batch, filtered)
          ELSE IF repo.url \in existed
               THEN FilterLoop(Tail(repos), existed, seen_in_batch, filtered)
          ELSE IF repo.url \in seen_in_batch
               THEN FilterLoop(Tail(repos), existed, seen_in_batch, filtered)
          ELSE FilterLoop(Tail(repos), existed, seen_in_batch \cup {repo.url},
                          Append(filtered, repo))

\* the filter without its seen_in_batch test
RECURSIVE FilterLoopNoBatchSeen(_, _, _)
FilterLoopNoBatchSeen(repos, existed, filtered) ==
  IF repos = <<>> THEN filtered
  ELSE LET repo == Head(repos)
       IN IF Falsy(repo) \/ repo.url \in existed
          THEN FilterLoopNoBatchSeen(Tail(repos), existed, filtered)
          ELSE FilterLoopNoBatchSeen(Tail(repos), existed, Append(filtered, repo))

FilterRepositoriesNoBatchSeen(repos, existed) == FilterLoopNoBatchSeen(repos, existed, <<>>)

FilterRepositories(repos, existed) == FilterLoop(repos, existed, {}, <<>>)

\* history_urls: any exception of the read is swallowed into the empty set
HistoryUrls(f, nr) ==
  IF ~f.exists THEN {}
  ELSE LET r == LoadBlocklist(f, nr) IN IF r.raised THEN {} ELSE r.set

\* -------------------------------------------------------------- save_to_csv
\* the in-batch dedup loop of save_to_csv
RECURSIVE UniqueLoop(_, _, _)
UniqueLoop(data, batch_seen, unique_data) ==
  IF data = <<>> THEN unique_data
  ELSE LET item == Head(data)
       IN IF Falsy(item) THEN UniqueLoop(Tail(data), batch_seen, unique_data)
          ELSE IF item.url \in batch_seen
               THEN UniqueLoop(Tail(data), batch_seen, unique_data)
          ELSE UniqueLoop(Tail(data), batch_seen \cup {item.url},
                          Append(unique_data, [url |-> item.url]))

UniqueData(data) == UniqueLoop(data, {}, <<>>)

FileEmpty(f) == (~f.exists) \/ FileSize0(f)

\* the open mode without the fresh-file test
ModeAlwaysWrite(file_empty) == "w"

Mode(file_empty) == IF file_empty THEN "w" ELSE "a"

\* the encoding without the fresh-file test
EncodingAlwaysSig(file_empty) == "utf-8-sig"

Encoding(file_empty) == IF file_empty THEN "utf-8-sig" ELSE "utf-8"

\* save_to_csv without its `if not unique_data: return`
NothingToWriteNever(unique_data) == FALSE

\* `if not unique_data`
NothingToWrite(unique_data) == unique_data = <<>>

\* the lines save_to_csv writes: f"{item['url']}\n" per item
UrlLines(unique_data) == [i \in DOMAIN unique_data |-> unique_data[i].url]

\* save_to_csv(data, filename) on file f with write outcome wn
SaveResult(data, f, wn) ==
  IF data = <<>> THEN [file |-> f, io |-> "none", mode |-> "none"]
  ELSE LET unique_data == UniqueData(data)
       IN IF NothingToWrite(unique_data)
          THEN [file |-> f, io |-> "none", mode |-> "none"]
          ELSE LET file_empty == FileEmpty(f)
                   mode == Mode(file_empty)
                   lines == Encode(UrlLines(unique_data), Encoding(file_empty))
               IN [file |-> OpenAndWrite(f, mode, lines, wn),
                   io |-> IF wn = Len(lines) THEN "ok" ELSE "failed",
                   mode |-> mode]

\* number of lines save_to_csv would write for data
LinesToWrite(data) == Len(UniqueData(data))

\* --------------------------------------------------------- add_to_blocklist
NeedsHeader(f) == IF f.exists THEN FileSize0(f) ELSE TRUE

BlockRows(f, value) ==
  (IF NeedsHeader(f) THEN <<CsvWriteRow(HEADER)>> ELSE <<>>) \o <<CsvWriteRow(value)>>

\* -------------------------------------------------------------------- state
VARIABLES
  blk,            \* block_github.csv
  out,            \* github_trending.csv
  pc,             \* "idle", or "fetched": get_trending returned, save pending
  repositories,   \* what _parse_html returned in this run
  existed_urls,   \* blocklist | history_urls of this run
  trending_repos, \* what get_trending returned
  blocklist,      \* what _load_blocklist returned, while it is the last call
  last            \* the last call: its name, outcome and arguments

vars == <<blk, out, pc, repositories, existed_urls, trending_repos, blocklist, last>>

NoCall == [op |-> "none", raised |-> FALSE, fetch |-> "none", io |-> "none",
           mode |-> "none", value |-> <<>>]

\* ------------------------------------------------------------------- inputs
UrlA == <<"a">>
UrlB == <<"b">>
UrlC == <<"c">>

Repos == {[url |-> UrlA], [url |-> UrlB], [url |-> UrlC], [url |-> <<>>], [name |-> UrlA]}

RECURSIVE SeqsUpTo(_, _)
SeqsUpTo(S, n) ==
  IF n = 0 THEN {<<>>}
  ELSE LET shorter == SeqsUpTo(S, n - 1)
       IN shorter \cup {Append(s, x) : s \in {t \in shorter : Len(t) = n - 1}, x \in S}

Batches == SeqsUpTo(Repos, MaxBatch)

ApiRepos == {[url |-> UrlA], [url |-> UrlB], [url |-> <<>>], [name |-> UrlA]}

ApiBatches == SeqsUpTo(ApiRepos, MaxCallBatch)

FetchOutcomes == {"ok", "timeout", "request_error", "http_error"}

BlockValues == {<<>>, UrlA, <<SP, "a", SP>>, HEADER}

\* rows a hand-edited file may hold
FileLines ==
  {<<>>, <<SP>>, HEADER, <<SP, "URL">>, UrlA, <<"b", COMMA, "a">>,
   <<QUOTE, "b", COMMA, "a", QUOTE>>, <<BAD>>}

UserFiles ==
  {Absent} \cup {[exists |-> TRUE, lines |-> ls] : ls \in SeqsUpTo(FileLines, MaxFileRows)}

HistoryFiles ==
  {Absent, [exists |-> TRUE, lines |-> <<UrlB>>], [exists |-> TRUE, lines |-> <<UrlB, <<BAD>>>>]}

\* ----------------------------------------------------------------- actions
Init ==
  /\ blk = Absent
  /\ out = Absent
  /\ pc = "idle"
  /\ repositories = <<>>
  /\ existed_urls = {}
  /\ trending_repos = <<>>
  /\ blocklist = {}
  /\ last = NoCall

\* get_trending: nb, nh = rows of each file readable before an OSError
GetTrending(nb, nh, fetch, parsed) ==
  /\ pc = "idle"
  /\ Len(out.lines) + Len(parsed) <= MaxOutRows   \* bound on the file's growth
  /\ LET bl == LoadBlocklist(blk, nb)
     IN IF bl.raised
        THEN /\ last' = [NoCall EXCEPT !.op = "get_trending", !.raised = TRUE]
             /\ UNCHANGED <<pc, repositories, existed_urls, trending_repos>>
        ELSE LET existed == bl.set \cup HistoryUrls(out, nh)
             IN /\ existed_urls' = existed
                /\ repositories' = IF fetch = "ok" THEN parsed ELSE <<>>
                /\ trending_repos' =
                     IF fetch = "ok" /\ parsed # <<>>
                     THEN FilterRepositories(parsed, existed) ELSE <<>>
                /\ pc' = "fetched"
                /\ last' = [NoCall EXCEPT !.op = "get_trending", !.fetch = fetch]
  /\ blocklist' = {}
  /\ UNCHANGED <<blk, out>>

\* the caller's save of the returned batch: save_to_csv(trending_repos, output)
SaveToCsv(wn) ==
  /\ pc = "fetched"
  /\ LET r == SaveResult(trending_repos, out, wn)
     IN /\ out' = r.file
        /\ last' = [NoCall EXCEPT !.op = "save_to_csv", !.io = r.io, !.mode = r.mode]
  /\ pc' = "idle"
  /\ repositories' = <<>>
  /\ existed_urls' = {}
  /\ trending_repos' = <<>>
  /\ blocklist' = {}
  /\ UNCHANGED blk

\* a direct call save_to_csv(data, "github_trending.csv")
SaveCall(data, wn) ==
  /\ pc = "idle"
  /\ Len(out.lines) + Len(data) <= MaxOutRows   \* bound on the file's growth
  /\ LET r == SaveResult(data, out, wn)
     IN /\ out' = r.file
        /\ last' = [NoCall EXCEPT !.op = "save_to_csv", !.io = r.io, !.mode = r.mode]
  /\ blocklist' = {}
  /\ UNCHANGED <<blk, pc, repositories, existed_urls, trending_repos>>

\* add_to_blocklist(value)
AddToBlocklist(value, nr, wn) ==
  /\ pc = "idle"
  /\ LET v == Strip(value)
         called == [NoCall EXCEPT !.op = "add_to_blocklist", !.value = value]
     IN IF v = <<>> THEN /\ blk' = blk
                         /\ last' = called
        ELSE LET ld == LoadBlocklist(blk, nr)
             IN IF ld.raised THEN /\ blk' = blk
                                  /\ last' = [called EXCEPT !.raised = TRUE]
                ELSE IF v \in ld.set THEN /\ blk' = blk
                                          /\ last' = called
                ELSE LET rows == BlockRows(blk, v)
                     IN /\ wn <= Len(rows)
                        /\ Len(blk.lines) + Len(rows) <= MaxBlockRows   \* bound
                        /\ blk' = OpenAndWrite(blk, "a", Encode(rows, "utf-8"), wn)
                        /\ last' = [called EXCEPT
                                      !.io = IF wn = Len(rows) THEN "ok" ELSE "failed",
                                      !.mode = "a"]
  /\ blocklist' = {}
  /\ UNCHANGED <<out, pc, repositories, existed_urls, trending_repos>>

\* a direct call _load_blocklist()
LoadCall(nr) ==
  /\ pc = "idle"
  /\ LET ld == LoadBlocklist(blk, nr)
     IN /\ blocklist' = ld.set
        /\ last' = [NoCall EXCEPT !.op = "_load_blocklist", !.raised = ld.raised]
  /\ UNCHANGED <<blk, out, pc, repositories, existed_urls, trending_repos>>

\* ---------------------------------------------------------- specifications
\* runs and blocklist additions; every read succeeds, writes may fail
Run ==
  \E fetch \in FetchOutcomes, parsed \in Batches :
    /\ fetch # "ok" => parsed = <<>>
    /\ GetTrending(Len(blk.lines), Len(out.lines), fetch, parsed)

Persist == \E wn \in -1 .. LinesToWrite(trending_repos) : SaveToCsv(wn)

Block == \E value \in BlockValues, wn \in -1 .. 2 : AddToBlocklist(value, Len(blk.lines), wn)

Next == Run \/ Persist \/ Block

Spec == Init /\ [][Next]_vars

\* every call of the public interface, reads and writes may fail with OSError
RunApi ==
  \E nb \in 0 .. Len(blk.lines), nh \in 0 .. Len(out.lines),
     fetch \in FetchOutcomes, parsed \in ApiBatches :
    /\ fetch # "ok" => parsed = <<>>
    /\ GetTrending(nb, nh, fetch, parsed)

SaveDirect == \E data \in ApiBatches : \E wn \in -1 .. LinesToWrite(data) : SaveCall(data, wn)

BlockApi ==
  \E value \in BlockValues, nr \in 0 .. Len(blk.lines), wn \in -1 .. 2 :
    AddToBlocklist(value, nr, wn)

NextApi == RunApi \/ Persist \/ SaveDirect \/ BlockApi

SpecApi == Init /\ [][NextApi]_vars

\* one _load_blocklist or get_trending call over files written by hand
InitRead ==
  /\ blk \in UserFiles
  /\ out \in HistoryFiles
  /\ pc = "idle"
  /\ repositories = <<>>
  /\ existed_urls = {}
  /\ trending_repos = <<>>
  /\ blocklist = {}
  /\ last = NoCall

Load == LoadCall(Len(blk.lines))

Fetch ==
  \E nb \in 0 .. Len(blk.lines), nh \in 0 .. Len(out.lines),
     fetch \in FetchOutcomes, parsed \in ApiBatches :
    /\ fetch # "ok" => parsed = <<>>
    /\ Len(parsed) <= 1
    /\ GetTrending(nb, nh, fetch, parsed)

NextRead == Load \/ Fetch

SpecRead == InitRead /\ [][NextRead]_vars

\* ------------------------------------------------------ claims: vocabulary
\* the identifier a line of the output file holds: the line, less the marker
\* that opens the file
OutIdentifier(f, i) ==
  LET line == f.lines[i]
  IN IF i = 1 /\ line # <<>> /\ Head(line) = BOM THEN Tail(line) ELSE line

OutIdentifierSeq(f) == [i \in DOMAIN f.lines |-> OutIdentifier(f, i)]

OutIdentifiers(f) == {OutIdentifier(f, i) : i \in DOMAIN f.lines}

\* the identifiers add_to_blocklist wrote: the rows after the header row
BlockIdentifiers(f) == {ParseField(f.lines[i], "start", <<>>) : i \in 2 .. Len(f.lines)}

\* the stable filter: first occurrences, in order, of the identifiers of L
\* that are non-empty and not in S
KeptIndices(L, S) ==
  {i \in DOMAIN L :
     /\ ~Falsy(L[i])
     /\ L[i].url \notin S
     /\ \A j \in 1 .. (i - 1) : Falsy(L[j]) \/ L[j].url # L[i].url}

RECURSIVE PickFrom(_, _, _)
PickFrom(L, I, i) ==
  IF i > Len(L) THEN <<>>
  ELSE (IF i \in I THEN <<L[i]>> ELSE <<>>) \o PickFrom(L, I, i + 1)

StableFilter(L, S) == PickFrom(L, KeptIndices(L, S), 1)

IsPrefix(s, t) == Len(s) <= Len(t) /\ SubSeq(t, 1, Len(s)) = s

\* ------------------------------------------------------------------- C1
\* C1: after any sequence of runs and add_to_blocklist calls, no identifier
\* occupies more than one line of the output file.
C1_OneLinePerIdentifier ==
  \A i, j \in DOMAIN out.lines :
    i # j => OutIdentifier(out, i) # OutIdentifier(out, j)

\* ------------------------------------------------------------------- C2
\* C2: once an identifier is a data line of the blocklist file or of the
\* output file, every later get_trending has it in existed_urls and returns
\* no record with it.
C2_SeenForever ==
  (pc = "fetched") =>
    /\ (BlockIdentifiers(blk) \cup OutIdentifiers(out)) \subseteq existed_urls
    /\ \A i \in DOMAIN trending_repos :
         trending_repos[i].url \notin (BlockIdentifiers(blk) \cup OutIdentifiers(out))

\* ------------------------------------------------------------------- C3
\* C3: one run whose write succeeds appends to the output exactly the first
\* occurrences, in input order, of the identifiers of the fetched batch that
\* neither the blocklist file nor the output file holds.
C3_RunAppendsNovel ==
  [][(pc = "fetched" /\ pc' = "idle" /\ last'.io # "failed") =>
       OutIdentifierSeq(out') =
         OutIdentifierSeq(out) \o
           UrlLines(StableFilter(repositories,
                                 BlockIdentifiers(blk) \cup OutIdentifiers(out)))]_vars

\* ------------------------------------------------------------------- C4
TrimmedFirstColumn(line) ==
  LET row == CsvRow(line) IN IF row = <<>> THEN <<>> ELSE Strip(row[1])

NonBlankRows(lines) == {i \in DOMAIN lines : TrimmedFirstColumn(lines[i]) # <<>>}

\* the row the claim lets the loader skip: the first non-blank row, when it
\* is 'url' in any case (0: none)
HeaderRow(lines) ==
  IF NonBlankRows(lines) = {} THEN 0
  ELSE LET first == CHOOSE i \in NonBlankRows(lines) :
                      \A j \in NonBlankRows(lines) : i <= j
       IN IF Lower(TrimmedFirstColumn(lines[first])) = HEADER THEN first ELSE 0

FirstRowHeaderLoad(lines) ==
  {TrimmedFirstColumn(lines[i]) : i \in NonBlankRows(lines) \ {HeaderRow(lines)}}

\* C4: the loader returns the trimmed non-blank first-column values, less
\* the first non-blank row when it is the header; a later 'url' row is data.
C4_HeaderOnlyFirstRow ==
  (last.op = "_load_blocklist" /\ ~last.raised) =>
    blocklist = FirstRowHeaderLoad(blk.lines)

\* ------------------------------------------------------------------- C5
\* C5: a second add_to_blocklist with the same non-blank value, after a
\* first one that completed, leaves the blocklist file as it is.
C5_AddTwiceNoop ==
  [][(/\ last.op = "add_to_blocklist"
      /\ last.io # "failed"
      /\ Strip(last.value) # <<>>
      /\ last'.op = "add_to_blocklist"
      /\ last'.value = last.value) => blk' = blk]_vars

\* ------------------------------------------------------------------- C6
\* C6: get_trending returns the stable filter of the parsed batch by the
\* seen-set: first occurrences, in order, of identifiers that are non-empty
\* and not seen; records without an identifier are dropped.
C6_StableFilter ==
  (pc = "fetched" /\ last.fetch = "ok") =>
    trending_repos = StableFilter(repositories, existed_urls)

C6_Witness ==
  /\ pc = "fetched"
  /\ last.fetch = "ok"
  /\ existed_urls # {}
  /\ Len(repositories) = 3
  /\ repositories[1] = repositories[3]
  /\ Len(trending_repos) = 2

\* ------------------------------------------------------------------- C7
\* C7: once a file is non-empty, every save_to_csv or add_to_blocklist,
\* failed or not, keeps its content as a prefix; no file goes back to absent.
C7_AppendOnly ==
  [][/\ out.lines # <<>> => IsPrefix(out.lines, out'.lines)
     /\ blk.lines # <<>> => IsPrefix(blk.lines, blk'.lines)
     /\ out.exists => out'.exists
     /\ blk.exists => blk'.exists]_vars

C7_Witness ==
  /\ last.op = "save_to_csv"
  /\ last.mode = "a"
  /\ last.io = "failed"
  /\ Len(out.lines) >= 2
  /\ Len(blk.lines) >= 3

\* ------------------------------------------------------------------- C8
\* the steps with nothing new to write
NothingNew ==
  \/ /\ pc = "idle" /\ pc' = "fetched"
     /\ (last'.fetch # "ok" \/ repositories' = <<>> \/ trending_repos' = <<>>)
  \/ /\ pc = "fetched" /\ pc' = "idle"
     /\ trending_repos = <<>>
  \/ \E data \in ApiBatches :
       /\ \A i \in DOMAIN data : Falsy(data[i])
       /\ \E wn \in -1 .. 0 : SaveCall(data, wn)

\* C8: a failed fetch, an empty parse, a fully filtered batch, or a save of
\* a batch without identifiers raises nothing and leaves both files alone.
C8_NothingNewNoFileOp ==
  [][NothingNew => (blk' = blk /\ out' = out /\ ~last'.raised)]_vars

C8_Witness ==
  /\ last.op = "save_to_csv"
  /\ last.io = "none"
  /\ ~out.exists
  /\ blk.lines # <<>>

\* ------------------------------------------------------------------- C9
\* C9: get_trending raises nothing, whatever fails while the blocklist file
\* or the history file is read.
C9_ReadFailureNeverAborts == (last.op = "get_trending") => ~last.raised

\* ------------------------------------------------------------------ C10
MarkerOnlyAtStart ==
  \A i \in DOMAIN out.lines : \A k \in DOMAIN out.lines[i] :
    out.lines[i][k] = BOM => (i = 1 /\ k = 1)

HeaderIsFirstRow == blk.lines # <<>> => blk.lines[1] = HEADER

\* on a file with content, add_to_blocklist appends the value's row alone
HeaderNotRepeated ==
  (blk.lines # <<>> /\ blk' # blk) =>
    /\ Len(blk'.lines) = Len(blk.lines) + 1
    /\ blk'.lines[Len(blk'.lines)] = CsvWriteRow(Strip(last'.value))

\* C10: the marker is only ever at the very start of the output file, the
\* header row is the first row of the blocklist file, and neither is written
\* again to a file that has content.
C10_PreludeOnce ==
  /\ [](MarkerOnlyAtStart /\ HeaderIsFirstRow)
  /\ [][HeaderNotRepeated]_vars

C10_Witness ==
  /\ last.op = "save_to_csv"
  /\ last.mode = "a"
  /\ last.io = "ok"
  /\ Len(out.lines) >= 2
  /\ Len(blk.lines) >= 3

====
